---- MODULE Spec2Model ----
(***************************************************************************)
(* Model of the solar monitor of src/srv.py: the monitoring coroutine      *)
(* SolarMonitor.monitor_system, the status evaluator (get_grid_status,     *)
(* check_critical_conditions), the shared field current_data and the HTTP  *)
(* handler SolarStatusServer.do_GET that reads it from another thread.     *)
(*                                                                         *)
(* Python values are records [t, v, s]: t is the Python type, v the        *)
(* magnitude of an int or float (floats are modelled at integral values),  *)
(* s the text of a str.  Texts are TLA+ strings, so formatting and         *)
(* concatenation are computed, not assumed.                                *)
(***************************************************************************)
EXTENDS Integers, Sequences, FiniteSets, TLC

(***************************************************************************)
(* Python values                                                           *)
(***************************************************************************)
PyInt(n)   == [t |-> "int",   v |-> n, s |-> ""]
PyFloat(n) == [t |-> "float", v |-> n, s |-> ""]
PyStr(txt) == [t |-> "str",   v |-> 0, s |-> txt]
PyNone     == [t |-> "none",  v |-> 0, s |-> ""]

\* Outcome of a Python expression: a value, or a raised exception.
Ok(x)      == [ok |-> TRUE, val |-> x]
Raise(e)   == [ok |-> FALSE, exc |-> e]

Abs(n) == IF n < 0 THEN 0 - n ELSE n

Digit(d) ==
    CASE d = 0 -> "0" [] d = 1 -> "1" [] d = 2 -> "2" [] d = 3 -> "3"
      [] d = 4 -> "4" [] d = 5 -> "5" [] d = 6 -> "6" [] d = 7 -> "7"
      [] d = 8 -> "8" [] d = 9 -> "9"

RECURSIVE NatStr(_)
NatStr(n) == IF n < 10 THEN Digit(n) ELSE NatStr(n \div 10) \o Digit(n % 10)

\* str() of an int
IntStr(n) == IF n < 0 THEN "-" \o NatStr(0 - n) ELSE NatStr(n)

\* str() of a float with an integral value: 250.0 -> "250.0"
FloatStr(n) == IntStr(n) \o ".0"

\* What an f-string {x} renders for a value x.
Format(x) ==
    CASE x.t = "int"   -> IntStr(x.v)
      [] x.t = "float" -> FloatStr(x.v)
      [] x.t = "str"   -> x.s
      [] x.t = "none"  -> "None"

\* The magnitudes that occur in the model; the texts float() can parse are
\* the decimal texts of these numbers.
Numbers == {-600, -250, -1, 0, 1, 3, 4, 5, 20, 49, 50, 80, 99, 100, 150,
            200, 250, 400, 499, 500, 600, 900}

\* float(x): int and float convert, a str converts when it is the text of a
\* number (ValueError otherwise), None raises TypeError.
float(x) ==
    CASE x.t \in {"int", "float"} -> Ok(x.v)
      [] x.t = "str" ->
           IF \E n \in Numbers : x.s \in {IntStr(n), FloatStr(n)}
           THEN Ok(CHOOSE n \in Numbers : x.s \in {IntStr(n), FloatStr(n)})
           ELSE Raise("ValueError")
      [] x.t = "none" -> Raise("TypeError")

\* a + b: numbers add (float if either is a float), two str concatenate,
\* anything else raises TypeError.
Add(a, b) ==
    IF a.t \in {"int", "float"} /\ b.t \in {"int", "float"}
    THEN Ok(IF a.t = "int" /\ b.t = "int" THEN PyInt(a.v + b.v)
                                            ELSE PyFloat(a.v + b.v))
    ELSE IF a.t = "str" /\ b.t = "str"
    THEN Ok(PyStr(a.s \o b.s))
    ELSE Raise("TypeError")

(***************************************************************************)
(* Readings: the InverterResponse returned by the telemetry client.  Its   *)
(* data attribute is a dict from metric names to values; a key may be      *)
(* absent.  None is the absence of a response.                             *)
(***************************************************************************)
GRID    == "Grid Power "
PV1     == "PV1 Power"
PV2     == "PV2 Power"
BATTERY == "Battery Remaining Capacity"
LOAD    == "Load/Generator Power"

None == [kind |-> "None"]
Response(d) == [kind |-> "InverterResponse", data |-> d]

\* dict.get(key, default)
Get(d, key, default) == IF key \in DOMAIN d THEN d[key] ELSE default

(***************************************************************************)
(* Status evaluator                                                        *)
(***************************************************************************)
\* the thresholds of check_critical_conditions
SOLAR_LIMIT   == 100
BATTERY_LIMIT == 5

\* Variant: the except clauses name ValueError alone.
MutEvaluatorCatches == {"ValueError"}

\* The exceptions the evaluator's own try blocks catch.
EvaluatorCatches == {"TypeError", "ValueError"}

\* Variant: the consuming label prints the signed value, without abs().
MutGridNoAbs(grid_power) ==
    LET f == float(grid_power) IN
    IF ~f.ok THEN Ok(<<"Error", "Unknown">>)
    ELSE IF f.val = 0 THEN Ok(<<"Disconnected", "OFF">>)
    ELSE IF f.val < 0 THEN Ok(<<"Consuming " \o FloatStr(f.val) \o "W", "ON">>)
    ELSE Ok(<<"Feeding " \o FloatStr(f.val) \o "W", "ON">>)

\* SolarMonitor.get_grid_status: <<grid_status, grid_connection>>
get_grid_status(grid_power) ==
    LET f == float(grid_power) IN
    IF ~f.ok
    THEN IF f.exc \in EvaluatorCatches THEN Ok(<<"Error", "Unknown">>)
                                       ELSE Raise(f.exc)
    ELSE IF f.val = 0 THEN Ok(<<"Disconnected", "OFF">>)
    ELSE IF f.val < 0 THEN Ok(<<"Consuming " \o FloatStr(Abs(f.val)) \o "W", "ON">>)
    ELSE Ok(<<"Feeding " \o FloatStr(f.val) \o "W", "ON">>)

\* Variant: the solar comparison is <= instead of <.
MutCheckInclusive(data) ==
    LET p1 == float(Get(data.data, PV1, PyFloat(0)))
        p2 == float(Get(data.data, PV2, PyFloat(0)))
        b  == float(Get(data.data, BATTERY, PyFloat(0)))
        g  == float(Get(data.data, GRID, PyFloat(0)))
    IN  IF ~p1.ok \/ ~p2.ok \/ ~b.ok \/ ~g.ok
        THEN Ok(FALSE)
        ELSE Ok(p1.val + p2.val <= 100 /\ b.val < 5 /\ g.val = 0)

\* Variant: no try block, a failed conversion propagates to the caller.
MutCheckNoCatch(data) ==
    LET p1 == float(Get(data.data, PV1, PyFloat(0)))
        p2 == float(Get(data.data, PV2, PyFloat(0)))
        b  == float(Get(data.data, BATTERY, PyFloat(0)))
        g  == float(Get(data.data, GRID, PyFloat(0)))
    IN  IF ~p1.ok THEN Raise(p1.exc) ELSE IF ~p2.ok THEN Raise(p2.exc)
        ELSE IF ~b.ok THEN Raise(b.exc) ELSE IF ~g.ok THEN Raise(g.exc)
        ELSE Ok(p1.val + p2.val < 100 /\ b.val < 5 /\ g.val = 0)

\* Variant: the fields are read with data.get(key), without the default 0.0.
MutCheckNoDefault(data) ==
    LET p1 == float(Get(data.data, PV1, PyNone))
        p2 == float(Get(data.data, PV2, PyNone))
        b  == float(Get(data.data, BATTERY, PyNone))
        g  == float(Get(data.data, GRID, PyNone))
        raised == IF ~p1.ok THEN p1.exc ELSE IF ~p2.ok THEN p2.exc
                  ELSE IF ~b.ok THEN b.exc ELSE IF ~g.ok THEN g.exc ELSE ""
    IN  IF raised # ""
        THEN IF raised \in EvaluatorCatches THEN Ok(FALSE) ELSE Raise(raised)
        ELSE Ok(/\ p1.val + p2.val < SOLAR_LIMIT
                /\ b.val < BATTERY_LIMIT
                /\ g.val = 0)

\* SolarMonitor.check_critical_conditions.  The four conversions run in
\* source order; the first one that fails raises, and the function's except
\* clause turns a TypeError or ValueError into the result False.
check_critical_conditions(data) ==
    LET p1 == float(Get(data.data, PV1, PyFloat(0)))
        p2 == float(Get(data.data, PV2, PyFloat(0)))
        b  == float(Get(data.data, BATTERY, PyFloat(0)))
        g  == float(Get(data.data, GRID, PyFloat(0)))
        raised == IF ~p1.ok THEN p1.exc ELSE IF ~p2.ok THEN p2.exc
                  ELSE IF ~b.ok THEN b.exc ELSE IF ~g.ok THEN g.exc ELSE ""
    IN  IF raised # ""
        THEN IF raised \in EvaluatorCatches THEN Ok(FALSE) ELSE Raise(raised)
        ELSE Ok(/\ p1.val + p2.val < SOLAR_LIMIT
                /\ b.val < BATTERY_LIMIT
                /\ g.val = 0)

(***************************************************************************)
(* Grid connection status, src/grid.py                                     *)
(***************************************************************************)
MODE  == "Run mode text"
GRID1 == "Grid 1 Voltage"
GRID2 == "Grid 2 Voltage"
GRID3 == "Grid 3 Voltage"
EPS1  == "EPS 1 Power"
EPS2  == "EPS 2 Power"
EPS3  == "EPS 3 Power"

\* str.lower() on the texts a run mode takes in the model
Lower(txt) ==
    CASE txt = "Normal"   -> "normal"
      [] txt = "NORMAL"   -> "normal"
      [] txt = "EPS Mode" -> "eps mode"
      [] OTHER            -> txt

\* x.lower(): only a str has the method
LowerOf(x) == IF x.t = "str" THEN Ok(Lower(x.s)) ELSE Raise("AttributeError")

\* x > 0: numbers compare, a str or None raises TypeError
Positive(x) == IF x.t \in {"int", "float"} THEN Ok(x.v > 0) ELSE Raise("TypeError")

\* abs(x)
AbsOf(x) == IF x.t \in {"int", "float"} THEN Ok(Abs(x.v)) ELSE Raise("TypeError")

\* any(x > 0 for x in xs) on a list of three: the generator is consumed in
\* order and stops at the first true element, or at the first exception
AnyPositive(xs) ==
    LET a == Positive(xs[1]) IN
    IF ~a.ok THEN a ELSE IF a.val THEN Ok(TRUE) ELSE
    LET b == Positive(xs[2]) IN
    IF ~b.ok THEN b ELSE IF b.val THEN Ok(TRUE) ELSE
    Positive(xs[3])

\* lines 55-63: the EPS test
EpsStatus(d) ==
    LET eps == AnyPositive(<<Get(d, EPS1, PyInt(0)), Get(d, EPS2, PyInt(0)),
                             Get(d, EPS3, PyInt(0))>>) IN
    IF ~eps.ok THEN eps ELSE IF eps.val THEN Ok("Off-Grid") ELSE Ok("Uncertain")

\* Variant: the power test of line 51 is <= 500.
MutDetermineInclusive(inverter_response) ==
    LET body ==
        IF inverter_response = None THEN Raise("AttributeError") ELSE
        LET d == inverter_response.data
            run_mode == LowerOf(Get(d, MODE, PyStr(""))) IN
        IF ~run_mode.ok THEN run_mode ELSE
        IF run_mode.val # "normal" THEN EpsStatus(d) ELSE
        LET volt == AnyPositive(<<Get(d, GRID1, PyInt(0)), Get(d, GRID2, PyInt(0)),
                                  Get(d, GRID3, PyInt(0))>>) IN
        IF ~volt.ok THEN volt ELSE
        IF ~volt.val THEN EpsStatus(d) ELSE
        LET power == AbsOf(Get(d, GRID, PyInt(0))) IN
        IF ~power.ok THEN power ELSE
        IF power.val <= 500 THEN Ok("On-Grid") ELSE EpsStatus(d)
    IN IF body.ok THEN body ELSE Ok("Uncertain")

\* determine_grid_status, lines 22-67: the body of the try block, and the
\* except clause that turns every exception into 'Uncertain'.  In line 51
\* abs(grid_power) is evaluated only when a voltage is positive.
determine_grid_status(inverter_response) ==
    LET body ==
        IF inverter_response = None THEN Raise("AttributeError") ELSE
        LET d == inverter_response.data
            run_mode == LowerOf(Get(d, MODE, PyStr(""))) IN
        IF ~run_mode.ok THEN run_mode ELSE
        IF run_mode.val # "normal" THEN EpsStatus(d) ELSE
        LET volt == AnyPositive(<<Get(d, GRID1, PyInt(0)), Get(d, GRID2, PyInt(0)),
                                  Get(d, GRID3, PyInt(0))>>) IN
        IF ~volt.ok THEN volt ELSE
        IF ~volt.val THEN EpsStatus(d) ELSE
        LET power == AbsOf(Get(d, GRID, PyInt(0))) IN
        IF ~power.ok THEN power ELSE
        IF power.val < 500 THEN Ok("On-Grid") ELSE EpsStatus(d)
    IN IF body.ok THEN body ELSE Ok("Uncertain")

(***************************************************************************)
(* State                                                                   *)
(***************************************************************************)
VARIABLES
    current_data,     \* SolarMonitor.current_data, shared with the handler
    last_alert_time,  \* SolarMonitor.last_alert_time
    mpc,              \* where monitor_system stands
    data,             \* monitor_system's local variable data
    delivered,        \* outcome of the last requests.post: "none", "ok", "failed"
    alert_result,     \* what send_discord_alert returned and logged in this cycle
    shutdown_result,  \* what shutdown_server returned and logged in this cycle
    cycle,            \* history: the operations performed since the last poll
    published,        \* history: line 205 has run at least once
    hpc,              \* where do_GET stands
    hdata,            \* do_GET's local variable data
    hgrid,            \* do_GET's locals <<grid_status, grid_connection>>
    resp,             \* the response do_GET last sent
    call,             \* evaluator harness: the call being made
    result            \* evaluator harness: what the call returned

monitorVars == <<current_data, last_alert_time, mpc, data, delivered, alert_result,
                 shutdown_result, cycle, published>>
handlerVars == <<hpc, hdata, hgrid, resp>>
harnessVars == <<call, result>>
vars == <<current_data, last_alert_time, mpc, data, delivered, alert_result,
          shutdown_result, cycle, published, hpc, hdata, hgrid, resp, call, result>>

(***************************************************************************)
(* The telemetry client.  The readings it may return in the system model:  *)
(* every combination of the values below, a response with an empty dict,   *)
(* and a response without the PV2 metric.                                  *)
(***************************************************************************)
PoolGrid    == {PyFloat(0), PyFloat(-250), PyStr("abc")}
PoolPV1     == {PyInt(50), PyStr("50"), PyInt(400)}
PoolPV2     == {PyInt(20), PyInt(200)}
PoolBattery == {PyInt(3), PyInt(80)}
PoolLoad    == {PyInt(900)}

Dict(g, p1, p2, b, l) ==
    (GRID :> g) @@ (PV1 :> p1) @@ (PV2 :> p2) @@ (BATTERY :> b) @@ (LOAD :> l)

EmptyDict == [k \in {} |-> PyNone]

ReadingPool ==
    {Response(Dict(g, p1, p2, b, l)) :
        g \in PoolGrid, p1 \in PoolPV1, p2 \in PoolPV2, b \in PoolBattery, l \in PoolLoad}
    \cup {Response(EmptyDict),
          Response((GRID :> PyFloat(0)) @@ (PV1 :> PyInt(50)) @@ (BATTERY :> PyInt(3))),
          Response((PV1 :> PyInt(50)) @@ (PV2 :> PyInt(20))),
          Response((PV1 :> PyInt(400)) @@ (LOAD :> PyInt(900)))}

\* What solax.discover / inverter.get_data can do: raise, or return a value.
TelemetryOutcomes ==
    {[raised |-> TRUE]} \cup {[raised |-> FALSE, value |-> r] : r \in ReadingPool \cup {None}}

\* SolarMonitor.get_inverter_data: any exception is logged and becomes None.
get_inverter_data(outcome) == IF outcome.raised THEN None ELSE outcome.value

\* Python truth value of a response object or None.
Truthy(d) == d # None

(***************************************************************************)
(* The monitor loop, SolarMonitor.monitor_system                           *)
(***************************************************************************)
\* Variant: __init__ starts current_data with an empty response, not None.
MutInitialData == Response(EmptyDict)

\* SolarMonitor.__init__
InitialData == None

\* Lines 209-216: the arguments of send_discord_alert are evaluated before
\* the call; the solar figure adds the raw dict values, not the converted
\* ones.  The first line of the text is abbreviated.
AlertMessage(d) ==
    LET g == float(Get(d.data, GRID, PyFloat(0))) IN
    IF ~g.ok THEN Raise(g.exc) ELSE
    LET st == get_grid_status(PyFloat(g.val)) IN
    IF ~st.ok THEN Raise(st.exc) ELSE
    LET solar == Add(Get(d.data, PV1, PyFloat(0)), Get(d.data, PV2, PyFloat(0))) IN
    IF ~solar.ok THEN Raise(solar.exc) ELSE
    Ok("CRITICAL SYSTEM ALERT\nGrid: " \o st.val[1]
       \o "\nSolar: " \o Format(solar.val) \o "W"
       \o "\nBattery: " \o Format(Get(d.data, BATTERY, PyFloat(0))) \o "%")

\* the function has not been called in this cycle
NotCalled == [called |-> FALSE]

\* Variant: send_discord_alert has no except clause.
MutSendNoCatch(outcome) ==
    [called |-> TRUE,
     ret |-> IF outcome = "ok" THEN Ok(PyNone) ELSE Raise("RequestException"),
     log |-> IF outcome = "ok" THEN "info" ELSE "none"]

\* SolarMonitor.send_discord_alert: one requests.post; when it raises, the
\* except clause logs an error.  The function has no return statement, so
\* it returns None in both cases.
send_discord_alert(outcome) ==
    [called |-> TRUE,
     ret |-> Ok(PyNone),
     log |-> IF outcome = "ok" THEN "info" ELSE "error"]

\* Variant: shutdown_server has no except clause.
MutShutdownNoCatch(outcome) ==
    [called |-> TRUE,
     body |-> outcome,
     ret |-> IF outcome = "ok" THEN Ok(PyNone) ELSE Raise("SSHException"),
     log |-> IF outcome = "ok" THEN "info" ELSE "none"]

\* SolarMonitor.shutdown_server: the try body stands for the remote command
\* (today a log line); it completes or raises, and the except clause logs
\* what it raises.
shutdown_server(outcome) ==
    [called |-> TRUE,
     body |-> outcome,
     ret |-> Ok(PyNone),
     log |-> IF outcome = "ok" THEN "info" ELSE "error"]

\* Variant: the body of the cycle runs without the test of line 204.
MutAfterPoll(d) == "publish"

\* Line 204: a falsy result skips the cycle's body.
AfterPoll(d) == IF Truthy(d) THEN "publish" ELSE "sleep"

\* Line 208: the alert branch is entered when the check returns True.
AfterCheck(r) == IF ~r.ok THEN "except" ELSE IF r.val THEN "alert" ELSE "sleep"

\* Variant: the cooldown and the shutdown are left to a later cycle.
MutAfterAlert == "sleep"

\* Lines 217-219: after the alert the coroutine sleeps, then shuts down.
AfterAlert == "wait"

\* Variant: the loop goes on without calling shutdown_server.
MutAfterWait == "sleep"

\* Line 219: shutdown_server follows the cooldown.
AfterWait == "shutdown"

\* Variant: the exception leaves the while loop.
MutAfterExcept == "exit"

\* Lines 220-223: the except clause logs and falls through to the sleep.
AfterExcept == "sleep"

\* Line 203
Poll ==
    /\ mpc = "poll"
    /\ \E o \in TelemetryOutcomes :
         LET d == get_inverter_data(o) IN
         /\ data' = d
         /\ mpc' = AfterPoll(d)
    /\ cycle' = <<"poll">>
    /\ delivered' = "none"
    /\ alert_result' = NotCalled
    /\ shutdown_result' = NotCalled
    /\ UNCHANGED <<current_data, last_alert_time, published>>
    /\ UNCHANGED handlerVars /\ UNCHANGED harnessVars

\* Variant: line 205 is missing, the reading is shown but never stored.
MutPublishSkipped ==
    /\ mpc = "publish"
    /\ published' = TRUE
    /\ cycle' = Append(cycle, "publish")
    /\ mpc' = "print"
    /\ UNCHANGED <<current_data, last_alert_time, data, delivered, alert_result,
                   shutdown_result>>
    /\ UNCHANGED handlerVars /\ UNCHANGED harnessVars

\* Line 205
Publish ==
    /\ mpc = "publish"
    /\ current_data' = data
    /\ published' = TRUE
    /\ cycle' = Append(cycle, "publish")
    /\ mpc' = "print"
    /\ UNCHANGED <<last_alert_time, data, delivered, alert_result, shutdown_result>>
    /\ UNCHANGED handlerVars /\ UNCHANGED harnessVars

\* Line 206: print_status writes to the console; its own except clause
\* catches every exception.
PrintStatus ==
    /\ mpc = "print"
    /\ cycle' = Append(cycle, "print_status")
    /\ mpc' = "check"
    /\ UNCHANGED <<current_data, last_alert_time, data, delivered, alert_result,
                   shutdown_result, published>>
    /\ UNCHANGED handlerVars /\ UNCHANGED harnessVars

\* Line 208
Check ==
    /\ mpc = "check"
    /\ cycle' = Append(cycle, "check")
    /\ mpc' = AfterCheck(check_critical_conditions(data))
    /\ UNCHANGED <<current_data, last_alert_time, data, delivered, alert_result,
                   shutdown_result, published>>
    /\ UNCHANGED handlerVars /\ UNCHANGED harnessVars

\* Lines 209-216 and send_discord_alert: when the message cannot be built
\* the call is never made; otherwise requests.post succeeds or raises, and
\* send_discord_alert catches what it raises.
Alert ==
    /\ mpc = "alert"
    /\ LET m == AlertMessage(data) IN
       IF ~m.ok
       THEN /\ mpc' = "except"
            /\ UNCHANGED <<cycle, delivered, alert_result>>
       ELSE /\ cycle' = Append(cycle, "alert")
            /\ \E outcome \in {"ok", "failed"} :
                 LET r == send_discord_alert(outcome) IN
                 /\ delivered' = outcome
                 /\ alert_result' = r
                 /\ mpc' = IF r.ret.ok THEN AfterAlert ELSE "except"
    /\ UNCHANGED <<current_data, last_alert_time, data, shutdown_result, published>>
    /\ UNCHANGED handlerVars /\ UNCHANGED harnessVars

\* Line 218: asyncio.sleep(60)
Wait ==
    /\ mpc = "wait"
    /\ cycle' = Append(cycle, "wait")
    /\ mpc' = AfterWait
    /\ UNCHANGED <<current_data, last_alert_time, data, delivered, alert_result,
                   shutdown_result, published>>
    /\ UNCHANGED handlerVars /\ UNCHANGED harnessVars

\* Line 219: the call of shutdown_server; what it lets out reaches the
\* except clause of the loop.
Shutdown ==
    /\ mpc = "shutdown"
    /\ cycle' = Append(cycle, "shutdown")
    /\ \E outcome \in {"ok", "failed"} :
         LET r == shutdown_server(outcome) IN
         /\ shutdown_result' = r
         /\ mpc' = IF r.ret.ok THEN "sleep" ELSE "except"
    /\ UNCHANGED <<current_data, last_alert_time, data, delivered, alert_result, published>>
    /\ UNCHANGED handlerVars /\ UNCHANGED harnessVars

\* Lines 220-221
Except ==
    /\ mpc = "except"
    /\ cycle' = Append(cycle, "except")
    /\ mpc' = AfterExcept
    /\ UNCHANGED <<current_data, last_alert_time, data, delivered, alert_result,
                   shutdown_result, published>>
    /\ UNCHANGED handlerVars /\ UNCHANGED harnessVars

\* Line 223: asyncio.sleep(60), then the next iteration
Sleep ==
    /\ mpc = "sleep"
    /\ mpc' = "poll"
    /\ UNCHANGED <<current_data, last_alert_time, data, delivered, alert_result,
                   shutdown_result, cycle, published>>
    /\ UNCHANGED handlerVars /\ UNCHANGED harnessVars

MonitorNext ==
    Poll \/ Publish \/ PrintStatus \/ Check \/ Alert \/ Wait \/ Shutdown \/ Except \/ Sleep

(***************************************************************************)
(* The status server, SolarStatusServer.do_GET.  HTTPServer handles one    *)
(* request at a time, on its own thread, so the handler's steps interleave *)
(* with the monitor's.  run_web_server sets server.solar_monitor before    *)
(* serve_forever, so the hasattr test of line 227 always passes.           *)
(***************************************************************************)
NoResp == [code |-> 0]
NoGrid == <<"", "">>

\* send_error(500, message)
Error500(message) == [code |-> 500, message |-> message]

\* Lines 242-252: the JSON object of a 200 response
\* Variant: the battery and home consumption values are exchanged.
MutStatus200Swapped(grid, solar, battery, home) ==
    [code |-> 200,
     body |-> [Grid |-> grid[1] \o " (" \o grid[2] \o ")",
               Solar_Panels |-> Format(solar) \o "W",
               Batteries |-> Format(home) \o "%",
               Home_Consumption |-> Format(battery) \o "W"]]

Status200(grid, solar, battery, home) ==
    [code |-> 200,
     body |-> [Grid |-> grid[1] \o " (" \o grid[2] \o ")",
               Solar_Panels |-> Format(solar) \o "W",
               Batteries |-> Format(battery) \o "%",
               Home_Consumption |-> Format(home) \o "W"]]

\* Variant: the server is served by the event loop of the monitor, which
\* is not free while the coroutine is inside the blocking requests.post.
MutHandlerCanRun == mpc # "alert"

\* main starts run_web_server on a thread of its own, so the handler can
\* take its next step wherever the monitor stands.
HandlerCanRun == TRUE

\* Variant: every line reads monitor.current_data again.
MutHandlerData == current_data

\* Line 232 binds the local data once; every later line reads the local.
HandlerData == hdata

\* A request arrives and a new handler frame starts.
HAccept ==
    /\ hpc = "idle"
    /\ hpc' = "read"
    /\ hdata' = None
    /\ hgrid' = NoGrid
    /\ resp' = NoResp
    /\ UNCHANGED monitorVars /\ UNCHANGED harnessVars

\* Variant: the handler takes the snapshot, leaving current_data empty.
MutHReadTakes ==
    /\ hpc = "read"
    /\ hdata' = current_data
    /\ current_data' = None
    /\ IF ~Truthy(current_data)
       THEN /\ resp' = Error500("No data available")
            /\ hpc' = "idle"
       ELSE /\ resp' = resp
            /\ hpc' = "grid"
    /\ UNCHANGED hgrid
    /\ UNCHANGED <<last_alert_time, mpc, data, delivered, alert_result,
                   shutdown_result, cycle, published>>
    /\ UNCHANGED harnessVars

\* Lines 231-236
HRead ==
    /\ hpc = "read"
    /\ HandlerCanRun
    /\ hdata' = current_data
    /\ IF ~Truthy(current_data)
       THEN /\ resp' = Error500("No data available")
            /\ hpc' = "idle"
       ELSE /\ resp' = resp
            /\ hpc' = "grid"
    /\ UNCHANGED hgrid
    /\ UNCHANGED monitorVars /\ UNCHANGED harnessVars

\* Lines 239-240; an exception goes to lines 253-255
HGrid ==
    /\ hpc = "grid"
    /\ HandlerCanRun
    /\ LET g == float(Get(HandlerData.data, GRID, PyFloat(0))) IN
       IF ~g.ok
       THEN /\ resp' = Error500(g.exc)
            /\ hpc' = "idle"
            /\ UNCHANGED hgrid
       ELSE LET st == get_grid_status(PyFloat(g.val)) IN
            IF ~st.ok
            THEN /\ resp' = Error500(st.exc)
                 /\ hpc' = "idle"
                 /\ UNCHANGED hgrid
            ELSE /\ hgrid' = st.val
                 /\ hpc' = "fields"
                 /\ UNCHANGED resp
    /\ UNCHANGED hdata
    /\ UNCHANGED monitorVars /\ UNCHANGED harnessVars

\* Lines 242-252; an exception goes to lines 253-255
HFields ==
    /\ hpc = "fields"
    /\ HandlerCanRun
    /\ LET d == HandlerData.data
           solar == Add(Get(d, PV1, PyFloat(0)), Get(d, PV2, PyFloat(0)))
       IN  IF ~solar.ok
           THEN resp' = Error500(solar.exc)
           ELSE resp' = Status200(hgrid, solar.val,
                                  Get(d, BATTERY, PyFloat(0)), Get(d, LOAD, PyFloat(0)))
    /\ hpc' = "idle"
    /\ UNCHANGED <<hdata, hgrid>>
    /\ UNCHANGED monitorVars /\ UNCHANGED harnessVars

\* the steps of a request that has been accepted
HandlerProgress == HRead \/ HGrid \/ HFields

HandlerNext == HAccept \/ HandlerProgress

(***************************************************************************)
(* Specifications of the running system                                    *)
(***************************************************************************)
NoCall   == [fn |-> "none"]
NoResult == [returned |-> FALSE]

\* the monitor and the server right after main has started them
SystemInit ==
    /\ current_data = InitialData
    /\ last_alert_time = 0
    /\ mpc = "poll"
    /\ data = None
    /\ delivered = "none"
    /\ alert_result = NotCalled
    /\ shutdown_result = NotCalled
    /\ cycle = << >>
    /\ published = FALSE
    /\ hpc = "idle"
    /\ hdata = None
    /\ hgrid = NoGrid
    /\ resp = NoResp

Init ==
    /\ SystemInit
    /\ call = NoCall
    /\ result = NoResult

Next == MonitorNext \/ HandlerNext

Spec == Init /\ [][Next]_vars

\* The event loop runs the coroutine whenever it can run: every sleep ends
\* and every call returns.
FairSpec == Init /\ [][Next]_vars /\ WF_vars(MonitorNext)

\* The server thread is scheduled whenever it can run; nothing is assumed
\* of the monitor, which may stay for ever in a sleep or a blocking call.
ServerFairSpec == Init /\ [][Next]_vars /\ WF_vars(HandlerProgress)

(***************************************************************************)
(* Evaluator harness: the status evaluator called directly, any number of  *)
(* times, on arguments drawn from the sets below.                          *)
(***************************************************************************)
Absent == [t |-> "absent", v |-> 0, s |-> ""]

\* the dict that holds the entries of d that are present
Present(d) == [k \in {x \in DOMAIN d : d[x] # Absent} |-> d[k]]

EvalPV1     == {PyInt(0), PyInt(50), PyFloat(99), PyInt(100), PyStr("50"), PyStr("abc"),
                Absent}
EvalPV2     == {PyInt(0), PyFloat(50), PyStr("20"), PyNone}
EvalBattery == {PyInt(3), PyFloat(4), PyInt(5), PyStr("abc"), Absent}
EvalGrid    == {PyFloat(0), PyInt(0), PyFloat(-250), PyInt(1), PyStr("0"), PyStr("abc"),
                Absent}
EvalPower   == {PyFloat(0), PyInt(0), PyFloat(-250), PyFloat(-1), PyInt(-1), PyInt(1),
                PyFloat(250), PyInt(600), PyStr("0"), PyStr("0.0"), PyStr("-250"),
                PyStr("50"), PyStr("abc"), PyStr(""), PyNone}

CheckCalls ==
    {[fn |-> "check_critical_conditions",
      arg |-> Response(Present(Dict(g, p1, p2, b, PyInt(900))))] :
        g \in EvalGrid, p1 \in EvalPV1, p2 \in EvalPV2, b \in EvalBattery}

GridCalls ==
    {[fn |-> "get_grid_status", arg |-> g] : g \in EvalPower}

EvalInit ==
    /\ SystemInit
    /\ call \in CheckCalls \cup GridCalls
    /\ result = NoResult

CallCheck ==
    /\ call.fn = "check_critical_conditions"
    /\ result = NoResult
    /\ result' = [returned |-> TRUE, out |-> check_critical_conditions(call.arg)]
    /\ UNCHANGED call
    /\ UNCHANGED monitorVars /\ UNCHANGED handlerVars

CallGrid ==
    /\ call.fn = "get_grid_status"
    /\ result = NoResult
    /\ result' = [returned |-> TRUE, out |-> get_grid_status(call.arg)]
    /\ UNCHANGED call
    /\ UNCHANGED monitorVars /\ UNCHANGED handlerVars

\* the caller makes its next call
NextCall ==
    /\ result # NoResult
    /\ call' \in CheckCalls \cup GridCalls
    /\ result' = NoResult
    /\ UNCHANGED monitorVars /\ UNCHANGED handlerVars

EvalNext == CallCheck \/ CallGrid \/ NextCall

EvalSpec == EvalInit /\ [][EvalNext]_vars

(***************************************************************************)
(* Harness of determine_grid_status: a caller applies it to one response   *)
(* after another.                                                          *)
(***************************************************************************)
ModeTexts    == {PyStr("Normal"), PyStr("normal"), PyStr("EPS Mode"), PyNone, Absent}
GridPowers   == {PyInt(-499), PyInt(500), PyFloat(-500), PyNone, Absent}
Voltages1    == {PyInt(0), PyFloat(230), PyNone}
Voltages2    == {Absent, PyInt(230)}
Voltages3    == {PyInt(0), PyInt(1)}
EpsPowers1   == {PyInt(0), PyInt(100)}
EpsPowers2   == {Absent, PyStr("x")}
EpsPowers3   == {PyInt(0), PyFloat(5)}

GridDict(m, g, v1, v2, v3, e1, e2, e3) ==
    (MODE :> m) @@ (GRID :> g) @@ (GRID1 :> v1) @@ (GRID2 :> v2) @@ (GRID3 :> v3)
    @@ (EPS1 :> e1) @@ (EPS2 :> e2) @@ (EPS3 :> e3)

DetermineCalls ==
    {[fn |-> "determine_grid_status",
      arg |-> Response(Present(GridDict(m, g, v1, v2, v3, e1, e2, e3)))] :
        m \in ModeTexts, g \in GridPowers, v1 \in Voltages1, v2 \in Voltages2,
        v3 \in Voltages3, e1 \in EpsPowers1, e2 \in EpsPowers2, e3 \in EpsPowers3}
    \cup {[fn |-> "determine_grid_status", arg |-> None]}

DetermineInit ==
    /\ SystemInit
    /\ call \in DetermineCalls
    /\ result = NoResult

CallDetermine ==
    /\ call.fn = "determine_grid_status"
    /\ result = NoResult
    /\ result' = [returned |-> TRUE, out |-> determine_grid_status(call.arg)]
    /\ UNCHANGED call
    /\ UNCHANGED monitorVars /\ UNCHANGED handlerVars

\* the caller passes the next response
NextDetermine ==
    /\ call.fn = "determine_grid_status"
    /\ result # NoResult
    /\ call' \in DetermineCalls
    /\ result' = NoResult
    /\ UNCHANGED monitorVars /\ UNCHANGED handlerVars

DetermineNext == CallDetermine \/ NextDetermine

DetermineSpec == DetermineInit /\ [][DetermineNext]_vars

(***************************************************************************)
(* Properties                                                              *)
(***************************************************************************)
Count(seq, x) == Cardinality({i \in DOMAIN seq : seq[i] = x})

\* An alert has been dispatched in this cycle and shutdown_server has not
\* yet completed.
Pending == Count(cycle, "alert") > 0 /\ Count(cycle, "shutdown") = 0

\* The step is a telemetry poll of the monitor loop.
PollStep == mpc = "poll" /\ mpc' # "poll"

\* C1: from the dispatch of an alert until shutdown_server has completed,
\* the loop takes no poll step and dispatches no further alert: the only
\* operations it performs are the cooldown wait and the shutdown.
C1_NoPollNoAlertDuringEscalation ==
    [][Pending =>
         /\ ~PollStep
         /\ Count(cycle', "alert") = Count(cycle, "alert")
         /\ cycle' \in {cycle, Append(cycle, "wait"), Append(cycle, "shutdown")}]_vars

\* C1 witness: an alert was dispatched, the cooldown has elapsed and the
\* shutdown is about to run.
C1_Witness == Pending /\ mpc = "shutdown" /\ Count(cycle, "wait") = 1

\* the reading of the cycle is classified critical
IsCritical(d) == Truthy(d) /\ check_critical_conditions(d) = Ok(TRUE)

\* C2: at the end of every cycle (the loop stands at the end-of-cycle
\* sleep) exactly one alert was dispatched since the poll when the reading
\* is critical, and none when it is not critical or the poll failed.
C2_OneAlertIffCritical ==
    mpc = "sleep" => Count(cycle, "alert") = (IF IsCritical(data) THEN 1 ELSE 0)

\* do_GET run on one fixed value of current_data (lines 231-255)
ResponseFor(d) ==
    IF ~Truthy(d) THEN Error500("No data available") ELSE
    LET g == float(Get(d.data, GRID, PyFloat(0))) IN
    IF ~g.ok THEN Error500(g.exc) ELSE
    LET st == get_grid_status(PyFloat(g.val)) IN
    IF ~st.ok THEN Error500(st.exc) ELSE
    LET solar == Add(Get(d.data, PV1, PyFloat(0)), Get(d.data, PV2, PyFloat(0))) IN
    IF ~solar.ok THEN Error500(solar.exc) ELSE
    Status200(st.val, solar.val, Get(d.data, BATTERY, PyFloat(0)),
              Get(d.data, LOAD, PyFloat(0)))

\* C3: whatever the monitor publishes while a request is handled, the
\* grid classification the handler holds and the response it sends are
\* those of the one reading it read from current_data, and that reading
\* was published by the monitor.
C3_ResponseFromOneReading ==
    /\ Truthy(hdata) => published
    /\ hpc = "fields" =>
         /\ ResponseFor(hdata).code = 200 => 
              hgrid[1] \o " (" \o hgrid[2] \o ")" = ResponseFor(hdata).body.Grid
    /\ (hpc = "idle" /\ resp # NoResp) => resp = ResponseFor(hdata)

\* C3 witness: a 200 response was sent although the monitor replaced
\* current_data by a different reading after the handler had read it.
C3_Witness ==
    /\ hpc = "idle" /\ resp.code = 200
    /\ current_data # hdata
    /\ ResponseFor(current_data) # resp

\* C4: a poll that yields no reading changes neither current_data nor the
\* alert state and goes straight to the end-of-cycle sleep; the cycle then
\* holds no operation but the poll.
C4_FailedPollChangesNothing ==
    /\ [][(PollStep /\ ~Truthy(data')) =>
            /\ current_data' = current_data
            /\ last_alert_time' = last_alert_time
            /\ mpc' = "sleep"]_vars
    /\ []((~Truthy(data) /\ cycle # << >>) =>
            (cycle = <<"poll">> /\ mpc \in {"sleep", "poll"}))

\* C4 witness: a poll failed after a reading had been published.
C4_Witness == mpc = "sleep" /\ ~Truthy(data) /\ Truthy(current_data)

\* C5: an exception in a cycle abandons the cycle and leads to the
\* end-of-cycle sleep, and the loop polls again and again.
C5_LoopNeverExits ==
    /\ [][mpc = "except" => mpc' \in {"except", "sleep"}]_vars
    /\ (mpc = "except") ~> (mpc = "sleep")
    /\ (mpc = "sleep") ~> (mpc = "poll")
    /\ []<>(mpc = "poll")
    /\ []<>(mpc # "poll")

\* C5 witness: an exception has reached the except clause of the loop.
C5_Witness == mpc = "except"

\* C6: as long as nothing has been published, a response that has been
\* sent is the 500 error, never a 200.
C6_NoSnapshotMeans500 ==
    ~published => (resp = NoResp \/ resp.code = 500)

\* C6 witness: a request was answered with 500 before the first publication.
C6_Witness == ~published /\ hpc = "idle" /\ resp.code = 500

\* the value is an int or a float
IsNumber(x) == x.t \in {"int", "float"}

\* the reading holds the three PV and battery metrics and the grid power,
\* all of them numbers
NumericReading(d) ==
    \A k \in {PV1, PV2, BATTERY, GRID} : k \in DOMAIN d.data /\ IsNumber(d.data[k])

CheckReturned == call.fn = "check_critical_conditions" /\ result # NoResult
GridReturned  == call.fn = "get_grid_status" /\ result # NoResult

\* C7: on a reading whose fields are numbers, check_critical_conditions
\* returns True exactly when PV1 + PV2 < 100, battery < 5 and grid power = 0,
\* and False otherwise; PV 50, battery 3, grid 0.0 gives True and PV 150,
\* battery 3, grid 0.0 gives False.
C7_CriticalIffAllThree ==
    (CheckReturned /\ NumericReading(call.arg)) =>
        LET d == call.arg.data IN
        /\ result.out = Ok(/\ d[PV1].v + d[PV2].v < 100
                           /\ d[BATTERY].v < 5
                           /\ d[GRID].v = 0)
        /\ (d[PV1].v + d[PV2].v = 50 /\ d[BATTERY].v = 3 /\ d[GRID] = PyFloat(0))
              => result.out = Ok(TRUE)
        /\ (d[PV1].v + d[PV2].v = 150 /\ d[BATTERY].v = 3 /\ d[GRID] = PyFloat(0))
              => result.out = Ok(FALSE)

\* C7 witness: the check returned True on the reading PV 50, battery 3,
\* grid 0.0.
C7_Witness ==
    /\ CheckReturned /\ NumericReading(call.arg)
    /\ call.arg.data[PV1].v + call.arg.data[PV2].v = 50
    /\ call.arg.data[BATTERY].v = 3
    /\ call.arg.data[GRID] = PyFloat(0)
    /\ result.out = Ok(TRUE)

\* the texts that are not the text of a number
Junk == {"abc", ""}

\* the value cannot be converted to a number
NotConvertible(x) == x.t = "none" \/ (x.t = "str" /\ x.s \in Junk)

\* one of the PV, battery or grid inputs of the reading cannot be converted
Malformed(d) ==
    \E k \in {PV1, PV2, BATTERY, GRID} : k \in DOMAIN d.data /\ NotConvertible(d.data[k])

\* C8: on a reading with an input that cannot be converted to a number,
\* check_critical_conditions returns False and raises nothing, and the
\* loop's branch on that result goes to the end-of-cycle sleep, past the
\* alert and the shutdown.
C8_MalformedIsNotCritical ==
    (CheckReturned /\ Malformed(call.arg)) =>
        /\ result.out = Ok(FALSE)
        /\ AfterCheck(result.out) = "sleep"

\* C8 witness: the check ran on a reading whose low PV, low battery and
\* zero grid power would be critical but for a PV2 value of None.
C8_Witness ==
    /\ CheckReturned /\ Malformed(call.arg)
    /\ Get(call.arg.data, PV1, Absent) = PyInt(50)
    /\ Get(call.arg.data, PV2, Absent) = PyNone
    /\ Get(call.arg.data, BATTERY, Absent) = PyInt(3)
    /\ Get(call.arg.data, GRID, Absent) = PyFloat(0)
    /\ result.out = Ok(FALSE)

\* C9: on a number, get_grid_status returns ("Disconnected", "OFF") for 0,
\* "Consuming <abs>W" with "ON" below 0 and "Feeding <value>W" with "ON"
\* above 0, the figure being the text of the float; this holds of every
\* call whatever the calls made before it (-250.0 gives "Consuming 250.0W").
C9_GridStatusBySign ==
    (GridReturned /\ IsNumber(call.arg)) =>
        LET n == call.arg.v IN
        /\ n = 0 => result.out = Ok(<<"Disconnected", "OFF">>)
        /\ n < 0 => result.out = Ok(<<"Consuming " \o IntStr(0 - n) \o ".0W", "ON">>)
        /\ n > 0 => result.out = Ok(<<"Feeding " \o IntStr(n) \o ".0W", "ON">>)
        /\ n = -250 => result.out = Ok(<<"Consuming 250.0W", "ON">>)
        /\ n = 1 => result.out = Ok(<<"Feeding 1.0W", "ON">>)

\* C9 witness: get_grid_status returned for a negative grid power.
C9_Witness == GridReturned /\ IsNumber(call.arg) /\ call.arg.v < 0

\* C10: on an input that is not a number and not the text of one,
\* get_grid_status returns ("Error", "Unknown") and raises nothing.
C10_NonNumericIsError ==
    (GridReturned /\ NotConvertible(call.arg)) => result.out = Ok(<<"Error", "Unknown">>)

\* C10 witness: get_grid_status returned for the input None.
C10_Witness == GridReturned /\ call.arg = PyNone

\* C11: once an alert has been dispatched, the cooldown and shutdown_server
\* follow and the loop reaches the end-of-cycle sleep with no alert pending;
\* while the alert is pending the loop is in the cooldown or the shutdown;
\* and whether the body of shutdown_server completes or raises, the call
\* returns None and the except clause of the loop is not entered.
C11_AlertSequenceTerminates ==
    /\ Pending ~> (Count(cycle, "shutdown") = 1 /\ mpc = "sleep")
    /\ [](Pending => mpc \in {"wait", "shutdown"})
    /\ [](shutdown_result # NotCalled =>
            /\ shutdown_result.ret = Ok(PyNone)
            /\ ~Pending
            /\ Count(cycle, "except") = 0
            /\ mpc \in {"sleep", "poll"})

\* C11 witness: the body of shutdown_server raised and the loop is at the
\* end-of-cycle sleep.
C11_Witness ==
    /\ shutdown_result # NotCalled
    /\ shutdown_result.body = "failed"
    /\ mpc = "sleep"

\* a Python bool
PyBool(b) == [t |-> "bool", v |-> IF b THEN 1 ELSE 0, s |-> ""]

\* C12 as stated: when the webhook call fails, send_discord_alert returns a
\* failure result (False) to the loop, raises nothing, and at most one alert
\* is attempted in the cycle.
C12_FailureReturnedAsResult ==
    delivered = "failed" =>
        /\ alert_result.ret = Ok(PyBool(FALSE))
        /\ mpc # "except" /\ Count(cycle, "except") = 0
        /\ Count(cycle, "alert") <= 1

\* C12 amended: when the webhook call fails, send_discord_alert logs an
\* error and returns None, the value it also returns on success; nothing is
\* raised to the loop; a cycle holds at most one alert, and only for its own
\* critical reading.
C12_FailureLoggedNotRaised ==
    /\ delivered = "failed" =>
         /\ alert_result.ret = Ok(PyNone)
         /\ alert_result.log = "error"
         /\ mpc # "except" /\ Count(cycle, "except") = 0
    /\ delivered = "ok" => alert_result.ret = Ok(PyNone)
    /\ Count(cycle, "alert") <= 1
    /\ Count(cycle, "alert") = 1 => IsCritical(data)

\* C12 witness: the webhook call failed and the cycle went on to the
\* shutdown and the end-of-cycle sleep.
C12_Witness == delivered = "failed" /\ mpc = "sleep" /\ Count(cycle, "shutdown") = 1

\* The step is a step of do_GET.
HandlerStep == hpc' # hpc

\* C13: no step of do_GET changes current_data, the alert state or any
\* other state of the monitor, or moves the monitor (no poll is started);
\* the value the handler binds at line 232 is current_data as it is at that
\* moment, and the response sent is the one computed from that value.
C13_RequestChangesNothing ==
    /\ [][HandlerStep =>
            /\ UNCHANGED monitorVars
            /\ hpc = "read" => hdata' = current_data]_vars
    /\ []((hpc = "idle" /\ resp # NoResp) => resp = ResponseFor(hdata))

\* C13 witness: a request was answered with 200 while the monitor was in
\* the cooldown of an alert.
C13_Witness == hpc = "idle" /\ resp.code = 200 /\ mpc = "wait"

\* C14: wherever the monitor stands (polling, in an alert call, in the
\* cooldown, in the end-of-cycle sleep) a request that has been accepted can
\* take its next step and is answered, even if the monitor never moves
\* again; and whatever the handler is doing, the monitor can take its next
\* step.
C14_NoMutualStall ==
    /\ [](hpc # "idle" => ENABLED HandlerProgress)
    /\ [](ENABLED MonitorNext)
    /\ (hpc # "idle") ~> (hpc = "idle" /\ resp # NoResp)

\* C14 witness: a request is being handled while the monitor is inside the
\* alert call.
C14_Witness == hpc = "grid" /\ mpc = "alert"

\* C15: current_data is None until the monitor first publishes; it changes
\* only in the publishing step of the monitor loop, which follows every
\* successful poll at once and stores the reading just fetched; from then
\* until the next poll it equals that reading; and once it holds a reading
\* it never becomes None again.
C15_SnapshotLifecycle ==
    /\ [](~published => current_data = None)
    /\ [][current_data' # current_data =>
            /\ mpc = "publish" /\ mpc' = "print"
            /\ current_data' = data]_vars
    /\ [][(PollStep /\ Truthy(data')) => mpc' = "publish"]_vars
    /\ [](mpc = "publish" => Truthy(data))
    /\ [](Count(cycle, "publish") = 1 => (Truthy(data) /\ current_data = data))
    /\ [][Truthy(current_data) => Truthy(current_data')]_vars

\* C15 witness: a poll has failed after a reading had been published, and
\* the published reading is still there.
C15_Witness == Truthy(current_data) /\ data = None /\ mpc = "sleep"

\* the reading holds the grid power, both PV powers, the battery percent and
\* the load power, all of them numbers
NumericSnapshot(d) ==
    /\ Truthy(d)
    /\ \A k \in {GRID, PV1, PV2, BATTERY, LOAD} :
         k \in DOMAIN d.data /\ IsNumber(d.data[k])

\* the reading of the example: grid -250.0, PV 400 + 200, battery 80, load 900
ExampleSnapshot ==
    Response(Dict(PyFloat(-250), PyInt(400), PyInt(200), PyInt(80), PyInt(900)))

\* C16: a request that read a published reading with numeric fields is
\* answered 200; Grid is "<label> (<connection>)" of get_grid_status on the
\* stored grid power, Solar Panels is PV1 + PV2 followed by "W", Batteries
\* the battery percent followed by "%", Home Consumption the load power
\* followed by "W"; grid -250.0, PV 400 + 200, battery 80, load 900 gives
\* "Consuming 250.0W (ON)", "600W", "80%", "900W".
C16_StatusFieldsOfSnapshot ==
    (hpc = "idle" /\ resp # NoResp /\ NumericSnapshot(hdata)) =>
        LET d   == hdata.data
            st  == get_grid_status(d[GRID]).val
            sum == IF d[PV1].t = "int" /\ d[PV2].t = "int"
                   THEN PyInt(d[PV1].v + d[PV2].v)
                   ELSE PyFloat(d[PV1].v + d[PV2].v)
        IN  /\ published
            /\ resp.code = 200
            /\ resp.body.Grid = st[1] \o " (" \o st[2] \o ")"
            /\ resp.body.Solar_Panels = Format(sum) \o "W"
            /\ resp.body.Batteries = Format(d[BATTERY]) \o "%"
            /\ resp.body.Home_Consumption = Format(d[LOAD]) \o "W"
            /\ hdata = ExampleSnapshot =>
                 resp.body = [Grid |-> "Consuming 250.0W (ON)",
                              Solar_Panels |-> "600W",
                              Batteries |-> "80%",
                              Home_Consumption |-> "900W"]

\* C16 witness: the request of the example has been answered.
C16_Witness ==
    /\ hpc = "idle" /\ hdata = ExampleSnapshot
    /\ resp.code = 200 /\ resp.body.Solar_Panels = "600W"

DetermineReturned == call.fn = "determine_grid_status" /\ result # NoResult

\* the spellings of the run mode that equal "normal" without regard to case
NormalSpellings == {"normal", "Normal", "NORMAL"}

\* the field k of the response, 0 when absent
FieldOr0(r, k) == Get(r.data, k, PyInt(0))

\* the response has a run mode that is a text or absent, and numbers (or
\* nothing) in the grid power, voltage and EPS fields
WellTyped(r) ==
    /\ r # None
    /\ Get(r.data, MODE, PyStr("")).t = "str"
    /\ \A k \in {GRID, GRID1, GRID2, GRID3, EPS1, EPS2, EPS3} : IsNumber(FieldOr0(r, k))

ModeIsNormal(r) ==
    r # None /\ Get(r.data, MODE, PyStr("")) \in {PyStr(t) : t \in NormalSpellings}

\* C17: determine_grid_status always returns one of its three texts and
\* raises nothing.  On a well-typed response it returns 'On-Grid' exactly
\* when the run mode is "normal" in any case, some grid voltage is > 0 and
\* |grid power| < 500; otherwise 'Off-Grid' when some EPS power is > 0, the
\* mode being normal or not; otherwise 'Uncertain'.  When the extraction
\* raises (no response, a run mode that is not a text, a first voltage that
\* is None, a grid power that is None once a voltage is positive, an EPS
\* power that is a text reached by the scan) it returns 'Uncertain'.
C17_GridConnectionStatus ==
    DetermineReturned =>
      LET r   == call.arg
          out == result.out IN
      /\ out.ok
      /\ out.val \in {"On-Grid", "Off-Grid", "Uncertain"}
      /\ WellTyped(r) =>
           LET on  == /\ ModeIsNormal(r)
                      /\ \E k \in {GRID1, GRID2, GRID3} : FieldOr0(r, k).v > 0
                      /\ Abs(FieldOr0(r, GRID).v) < 500
               off == \E k \in {EPS1, EPS2, EPS3} : FieldOr0(r, k).v > 0
           IN out.val = IF on THEN "On-Grid" ELSE IF off THEN "Off-Grid" ELSE "Uncertain"
      /\ r = None => out.val = "Uncertain"
      /\ (r # None /\ Get(r.data, MODE, PyStr("")) = PyNone) => out.val = "Uncertain"
      /\ (ModeIsNormal(r) /\ FieldOr0(r, GRID1) = PyNone) => out.val = "Uncertain"
      /\ (ModeIsNormal(r) /\ FieldOr0(r, GRID1) = PyFloat(230)
            /\ FieldOr0(r, GRID) = PyNone) => out.val = "Uncertain"
      /\ (r # None /\ Get(r.data, MODE, PyStr("")) = PyStr("EPS Mode")
            /\ FieldOr0(r, EPS1) = PyInt(0) /\ FieldOr0(r, EPS2) = PyStr("x"))
           => out.val = "Uncertain"

\* C17 witness: the mode is normal, a voltage is positive and the grid
\* power is 500, so the on-grid test fails, and an EPS power is positive:
\* the call returned 'Off-Grid'.
C17_Witness ==
    /\ DetermineReturned /\ WellTyped(call.arg) /\ ModeIsNormal(call.arg)
    /\ FieldOr0(call.arg, GRID1) = PyFloat(230)
    /\ FieldOr0(call.arg, GRID) = PyInt(500)
    /\ result.out = Ok("Off-Grid")

\* the operation a has been performed before the operation b in the cycle
Before(seq, a, b) ==
    \E i, j \in DOMAIN seq : i < j /\ seq[i] = a /\ seq[j] = b

\* C18: in a cycle with a successful poll the reading is published only
\* after the evaluator (print_status with its grid classification, and
\* check_critical_conditions) has been run on it, and an alert is dispatched
\* only after the reading has been published; wait and shutdown follow the
\* alert.
C18_EvaluateBeforePublish ==
    /\ Count(cycle, "publish") = 1 =>
         /\ Before(cycle, "print_status", "publish")
         /\ Before(cycle, "check", "publish")
    /\ Count(cycle, "alert") = 1 => Before(cycle, "publish", "alert")
    /\ Count(cycle, "wait") = 1 => Before(cycle, "alert", "wait")
    /\ Count(cycle, "shutdown") = 1 => Before(cycle, "wait", "shutdown")

\* the reading has neither the battery field nor the grid power field
LacksBatteryAndGrid(d) ==
    Truthy(d) /\ BATTERY \notin DOMAIN d.data /\ GRID \notin DOMAIN d.data

\* the PV power of the reading, an absent field counting 0; the PV fields
\* that are present are numbers
PVPower(d) == Get(d.data, PV1, PyFloat(0)).v + Get(d.data, PV2, PyFloat(0)).v

NumericPV(d) ==
    \A k \in {PV1, PV2} : k \in DOMAIN d.data => IsNumber(d.data[k])

AbsentIsCritical(d) ==
    LacksBatteryAndGrid(d) /\ NumericPV(d) /\ PVPower(d) < SOLAR_LIMIT

\* the step ends the operation the monitor was in
MonitorLeaves(p) == mpc = p /\ mpc' # p

AlertSequence == <<"poll", "publish", "print_status", "check", "alert", "wait", "shutdown">>

\* C19: a fetched reading without battery and grid power fields whose PV
\* power (absent fields counting 0) is below 100 is classified critical:
\* the check sends the loop to the alert, the alert is dispatched and
\* followed by the wait and the shutdown, so that the cycle of such a
\* reading ends as the full alert sequence.  A reading of this kind with PV
\* power 100 or more is not critical and ends its cycle after the check.
C19_AbsentFieldsCountZero ==
    /\ [](AbsentIsCritical(data) => check_critical_conditions(data) = Ok(TRUE))
    /\ [][(MonitorLeaves("check") /\ AbsentIsCritical(data)) => mpc' = "alert"]_vars
    /\ [][(MonitorLeaves("alert") /\ AbsentIsCritical(data)) =>
            (cycle' = Append(cycle, "alert") /\ mpc' = "wait")]_vars
    /\ []((mpc = "sleep" /\ AbsentIsCritical(data)) => cycle = AlertSequence)
    /\ []((mpc = "sleep" /\ LacksBatteryAndGrid(data) /\ NumericPV(data)
             /\ PVPower(data) >= SOLAR_LIMIT)
            => cycle = <<"poll", "publish", "print_status", "check">>)

\* C19 witness: a reading that holds nothing but two PV powers, 50 and 20,
\* went through the whole alert sequence.
C19_Witness ==
    /\ data = Response((PV1 :> PyInt(50)) @@ (PV2 :> PyInt(20)))
    /\ mpc = "sleep" /\ cycle = AlertSequence

\* C20: shutdown_server runs only as the last step of an alert sequence:
\* when it has run, the cycle is exactly poll, publish, print_status, check,
\* one alert, one wait, shutdown, on a reading classified critical.  Alerts
\* and shutdowns alternate: a cycle holds at most one of each and a new poll
\* starts only when every alert has had its shutdown.  The shutdown runs
\* whether the alert was delivered or not: the wait follows the alert and
\* the shutdown follows the wait whatever the delivery was.
C20_ShutdownOnlyEndsAlertSequence ==
    /\ [](Count(cycle, "shutdown") > 0 => (cycle = AlertSequence /\ IsCritical(data)))
    /\ [](Count(cycle, "alert") <= 1 /\ Count(cycle, "shutdown") <= 1)
    /\ [][PollStep => Count(cycle, "alert") = Count(cycle, "shutdown")]_vars
    /\ [][(MonitorLeaves("alert") /\ cycle' # cycle) =>
            (delivered' \in {"ok", "failed"} /\ mpc' = "wait")]_vars
    /\ [][MonitorLeaves("wait") => mpc' = "shutdown"]_vars
    /\ [][MonitorLeaves("shutdown") =>
            (cycle' = AlertSequence /\ delivered' = delivered)]_vars
    /\ []((mpc = "sleep" /\ delivered # "none") => Count(cycle, "shutdown") = 1)

\* C20 witness: the alert was not delivered and shutdown_server has run.
C20_Witness ==
    /\ delivered = "failed" /\ alert_result.log = "error"
    /\ cycle = AlertSequence /\ shutdown_result # NotCalled

====
